---- MODULE Spec2Model ----
(***************************************************************************)
(* GManage front-end: the HTTP client's token-refresh coordinator           *)
(* (services/api.ts) and the session store (contexts/AuthContext.tsx).      *)
(*                                                                         *)
(* One step of the model is one task of the browser's event loop: a user   *)
(* event, a network response or a page load, together with every promise   *)
(* continuation (microtask) it triggers. The backend answers with bodies of *)
(* the declared types (types/api.ts).                                      *)
(***************************************************************************)
EXTENDS Integers, Sequences, FiniteSets, TLC

\* ------------------------------------------------------------------ bounds
MaxPage == 1    \* page-level requests in flight at once, beside the session store's own
MaxTimers == 2  \* delayed status refreshes pending at once
MaxStatusCalls == 2  \* status fetches in flight at once
MaxSubmits == 2  \* bulk jobs posted from the confirmation dialog in one run of the page
MaxRetryPosts == 3  \* bulk jobs posted by the Retry button in one run of the page
MaxTasks == 1   \* jobs submitted by the task-tracking page in one run
MaxPolls == 2   \* task-status calls in flight at once

\* --------------------------------------------------------------- constants
NULL == "null"

\* AuthTokens: opaque strings; two pairs tell a rotated pair from the old one
AuthTokens(i) == [access |-> "a" \o i, refresh |-> "r" \o i]
NoTokens == [access |-> NULL, refresh |-> NULL]
TokenPairs == {AuthTokens("1"), AuthTokens("2")}

Users == {"alice", "bob"}

LoginUrl == "/auth/login/"
RegisterUrl == "/auth/register/"
LogoutUrl == "/auth/logout/"
ProfileUrl == "/profile/"
StatusUrl == "/auth/google/status/"

PageIds == {"p" \o ToString(i) : i \in 1..MaxPage}
FlowIds == {"init", "login", "logout"}
ReqIds == FlowIds \cup PageIds

\* every url the client is called with, and every pattern the interceptors look for
Urls == {LoginUrl, RegisterUrl, LogoutUrl, ProfileUrl, StatusUrl}
Patterns == {"/auth/login", "/auth/register", "/auth/refresh"}

\* String.prototype.includes, tabulated over Urls and Patterns
Substring(s, pat) ==
    \E i \in 1..(Len(s) - Len(pat) + 1) : SubSeq(s, i, i + Len(pat) - 1) = pat
IncludesTable == [u \in Urls |-> {pat \in Patterns : Substring(u, pat)}]
includes(s, pat) == pat \in IncludesTable[s]

\* An axios error: the request (config) it belongs to, the response status,
\* and which transmission of that request it answers.
Error(r, status, attempt) == [config |-> r, status |-> status, attempt |-> attempt]
NoError == [config |-> NULL, status |-> 0, attempt |-> 0]

\* A response body: the user of a profile response, the pair of a login response.
NoData == [user |-> NULL, tokens |-> NoTokens]
UserData(u) == [user |-> u, tokens |-> NoTokens]
TokenData(t) == [user |-> NULL, tokens |-> t]

\* A task of the event loop that delivers a response: to which request (or to
\* the refresh call), with which status and body, which requests' handlers it
\* resumed, and which promises it settled towards their callers.
Delivered(src, status, data, woke, settled) ==
    [src |-> src, status |-> status, data |-> data, woke |-> woke, settled |-> settled]
NoResponse == Delivered(NULL, 0, NoData, {}, {})

\* the promise of request r for url settles towards its caller after `sends`
\* transmissions; ls is the storage the interceptor leaves to the caller
Settlement(r, url, error, sends, ls) ==
    [req |-> r, url |-> url, error |-> error, sends |-> sends, ls |-> ls]

\* A request config with the promise handed to its caller. auth is the
\* Authorization header of the transmission on the wire, sends counts the
\* transmissions, error is the error its handler holds while it waits.
NewConfig(url) ==
    [st |-> "idle", url |-> url, retry |-> FALSE, auth |-> NULL, sends |-> 0,
     error |-> NoError, data |-> NoData]

VARIABLES
    localStorage,       \* [access_token, refresh_token] -> token or NULL
    isRefreshing,       \* ApiService.isRefreshing
    refreshPromise,     \* <<>> (null) or <<error>>: pending, its catch closes over error
    refreshCalls,       \* outstanding POST /auth/refresh/ calls
    task,               \* the response the current task delivered, if it delivered one
    navigatingToLogin,  \* window.location.href = '/login' assigned, page not yet replaced
    req,                \* request id -> request config / promise
    user,               \* AuthProvider.user
    isAuthenticated,    \* AuthProvider.isAuthenticated
    isLoading,          \* AuthProvider.isLoading
    initPc,             \* initializeAuth: "start", "fetching", "done"
    login,              \* login()/register() call: [pc, result, error, tokens]
    logout              \* logout() call: [pc, result]

\* GmailProvider (contexts/GmailContext.tsx)
VARIABLES
    oauthStatus,        \* <<>> (null) or <<status record>>
    gmailLoading,       \* GmailProvider.isLoading
    gmailError,         \* GmailProvider.error: NULL or a message
    statusTimers,       \* pending setTimeout(refreshStatus, 500) callbacks: the
                        \* isAuthenticated each callback's closure captured
    statusCalls,        \* getGoogleOAuthStatus() calls in flight
    revoke,             \* disconnectGmail() call: [pc, result]
    gmailEvent          \* what the current task did in the store

gmailVars == <<oauthStatus, gmailLoading, gmailError, statusTimers, statusCalls,
               revoke, gmailEvent>>

\* OAuthCallback (pages/OAuthCallback.tsx)
VARIABLES
    cbParams,           \* searchParams.get of code, state, error: NULL or the value
    cbStatus,           \* "loading", "success", "error"
    cbMessage,          \* the message shown
    cbPc,               \* handleCallback: "mounted", "exchanging", "settled"
    cbCalls,            \* handleGoogleCallback calls made: <<code, state>> each
    cbTimer,            \* <<>> or <<ms left>> of the pending redirect timer
    cbWaited,           \* ms passed since the redirect timer was set
    cbLocation          \* the route the browser is on

callbackVars == <<cbParams, cbStatus, cbMessage, cbPc, cbCalls, cbTimer, cbWaited,
                  cbLocation>>

\* BulkOperations (the bulk operations page)
VARIABLES
    selectedCategory,   \* '' or a category token
    selectedTimePeriod, \* '' or an age bucket
    emailCount,         \* the item count
    operation,          \* "delete" or "recover"
    validationErrors,   \* the keys of the validationErrors object
    isFormValid,
    effectPending,      \* the validation effect has not yet run for this render
    executing,
    executeOpen,        \* the confirmation dialog
    currentTask,        \* <<>> (null) or <<task>>
    bulkError,          \* <<>> (null) or <<message>>
    bulkSuccess,        \* <<>> (null) or <<message>>
    retryCount,
    submits,            \* job submissions awaiting their response
    posts,              \* every job posted so far: [endpoint, q, max_emails]
    successTimers,      \* pending setTimeout(() => setSuccess(null), 5000)
    bulkEvent,          \* what the current task did on the page
    retries             \* retry submissions issued since the inputs last changed

\* BulkOperations: the tracked task and its polling
VARIABLES
    mounted,            \* the page component is mounted
    pollTimers,         \* active setInterval timers: the task_id each closed over
    polls,              \* getTaskStatus calls in flight
    taskStatus,         \* the backend: the status of each task
    completions,        \* completion messages produced so far
    polled              \* the status the poll response of this task carried

pollVars == <<mounted, pollTimers, polls, taskStatus, completions, polled>>

formVars == <<selectedCategory, selectedTimePeriod, emailCount, operation>>

bulkVars == <<formVars, validationErrors, isFormValid, effectPending, executing,
              executeOpen, currentTask, bulkError, bulkSuccess, retryCount, submits,
              posts, successTimers, bulkEvent, retries, pollVars>>

\* the state of the page components, which the session store and the HTTP
\* client do not touch
pageVars == <<gmailVars, callbackVars, bulkVars>>

sessionVars == <<localStorage, isRefreshing, refreshPromise, refreshCalls, task,
                 navigatingToLogin, req, user, isLoading, initPc, login, logout>>

vars == <<localStorage, isRefreshing, refreshPromise, refreshCalls, task,
          navigatingToLogin, req, user, isAuthenticated, isLoading, initPc, login, logout,
          pageVars>>

apiVars == <<isRefreshing, refreshPromise, refreshCalls, navigatingToLogin>>

\* ------------------------------------------------------------ ApiService

\* request interceptor: attach the stored access token except on login/register
RequestInterceptor(config, ls) ==
    LET token == ls.access_token IN
    IF token # NULL /\ ~includes(config.url, "/auth/login")
                    /\ ~includes(config.url, "/auth/register")
    THEN [config EXCEPT !.auth = token]
    ELSE config

\* this.api.request(config): run the request interceptor and put it on the wire
Transmit(config, ls) ==
    [RequestInterceptor(config, ls) EXCEPT !.st = "sent", !.sends = @ + 1]

\* mutants of the first test: the retry marker is not looked at; a missing
\* refresh token is not looked at
ShouldNotRetryUnmarked(config, ls) ==
    \/ includes(config.url, "/auth/login")
    \/ includes(config.url, "/auth/register")
    \/ includes(config.url, "/auth/refresh")
    \/ ls.refresh_token = NULL

ShouldNotRetryTokenless(config, ls) ==
    \/ config.retry
    \/ includes(config.url, "/auth/login")
    \/ includes(config.url, "/auth/register")
    \/ includes(config.url, "/auth/refresh")

\* response interceptor, first test: surface the error unchanged
ShouldNotRetry(config, ls) ==
    \/ config.retry
    \/ includes(config.url, "/auth/login")
    \/ includes(config.url, "/auth/register")
    \/ includes(config.url, "/auth/refresh")
    \/ ls.refresh_token = NULL

\* mutant: every 401 starts a refresh call
StartsRefreshAlways(refreshing) == TRUE

\* response interceptor: does this 401 start a refresh call of its own
StartsRefresh(refreshing) == ~refreshing

\* mutant: the marker is never reset
MarkerKept(refreshing) == refreshing

\* .finally(): the in-flight marker once the refresh call has settled
MarkerAfterSettle(refreshing) == FALSE

\* mutant: the refresh token is left behind
ApiClearAccessOnly(ls) ==
    [ls EXCEPT !.access_token = NULL]

\* ApiService.clearAuthData
ApiClearAuthData(ls) ==
    [ls EXCEPT !.access_token = NULL, !.refresh_token = NULL]

\* both tokens stored, none stored
Present(ls) == ls.access_token # NULL /\ ls.refresh_token # NULL
Absent(ls) == ls.access_token = NULL /\ ls.refresh_token = NULL

\* localStorage.setItem of both tokens
StoreTokens(ls, tokens) ==
    [ls EXCEPT !.access_token = tokens.access, !.refresh_token = tokens.refresh]

\* after a fulfilled refresh: mark the original request and issue it again
Reissue(config, tokens, ls) ==
    Transmit([config EXCEPT !.auth = tokens.access, !.retry = TRUE, !.error = NoError], ls)

\* mutant: a waiter passes on the error the refresh promise was rejected with
WaiterRejectionShared(config, refreshError) == refreshError

\* the error a request waiting on a rejected refresh promise is rejected with
WaiterRejection(config, refreshError) == config.error

\* ----------------------------------------------------------- AuthContext
\* The part of the state a promise continuation may touch, threaded through
\* the continuations that run within one task.
Ctx ==
    [ls |-> localStorage, user |-> user, isAuthenticated |-> isAuthenticated,
     isLoading |-> isLoading, initPc |-> initPc, login |-> login, logout |-> logout,
     req |-> req, settled |-> {}]

Commit(c) ==
    /\ localStorage' = c.ls
    /\ user' = c.user
    /\ isAuthenticated' = c.isAuthenticated
    /\ isLoading' = c.isLoading
    /\ initPc' = c.initPc
    /\ login' = c.login
    /\ logout' = c.logout
    /\ req' = c.req

IdleLogin ==
    [pc |-> "idle", result |-> "none", error |-> NoError, tokens |-> NoTokens]
IdleLogout == [pc |-> "idle", result |-> "none"]

\* AuthProvider.clearAuthData
ClearAuthData(c) ==
    [c EXCEPT !.ls = [@ EXCEPT !.access_token = NULL, !.refresh_token = NULL],
              !.user = NULL,
              !.isAuthenticated = FALSE]

\* mutant: the profile is stored but the session is not marked authenticated
FetchUserProfileUnmarked(c, r) ==
    IF c.req[r].error = NoError
    THEN [c EXCEPT !.user = c.req[r].data.user]
    ELSE ClearAuthData(c)

\* fetchUserProfile, after apiService.getCurrentUser() has settled on request r
FetchUserProfileSettled(c, r) ==
    IF c.req[r].error = NoError
    THEN [c EXCEPT !.user = c.req[r].data.user, !.isAuthenticated = TRUE]
    ELSE ClearAuthData(c)

\* initializeAuth, after its fetchUserProfile() has returned
InitializeAuthSettled(c) ==
    [FetchUserProfileSettled(c, "init") EXCEPT !.isLoading = FALSE, !.initPc = "done"]

\* mutant: the catch block rethrows without clearing
LoginRejectedUncleared(c) ==
    [c EXCEPT !.login = [@ EXCEPT !.pc = "idle", !.result = "rejected",
                                  !.error = c.req["login"].error]]

\* the catch block of login(); when register() awaits that login(), its own
\* catch block then runs clearAuthData() once more and rethrows the same error
LoginRejected(c) ==
    [ClearAuthData(c) EXCEPT !.login = [@ EXCEPT !.pc = "idle", !.result = "rejected",
                                                 !.error = c.req["login"].error]]

\* login()/register(), after the request they await has settled
LoginSettled(c) ==
    LET ok == c.req["login"].error = NoError IN
    CASE c.login.pc = "register" ->
            IF ok
            THEN [c EXCEPT !.login.pc = "login",
                           !.req["login"] = Transmit(NewConfig(LoginUrl), c.ls)]
            ELSE LoginRejected(c)
      [] c.login.pc = "login" ->
            IF ok
            THEN LET tokens == c.req["login"].data.tokens
                     ls2 == StoreTokens(c.ls, tokens)
                 IN [c EXCEPT !.ls = ls2,
                              !.login.pc = "profile",
                              !.login.tokens = tokens,
                              !.req["login"] = Transmit(NewConfig(ProfileUrl), ls2)]
            ELSE LoginRejected(c)
      [] OTHER ->
            \* "profile": fetchUserProfile() never throws, so login() returns
            [FetchUserProfileSettled(c, "login") EXCEPT
                !.login = [@ EXCEPT !.pc = "idle", !.result = "resolved"]]

\* mutant: no try/finally, a failed logout call ends logout() with the error
LogoutSettledUnguarded(c) ==
    IF c.req["logout"].error = NoError
    THEN [ClearAuthData(c) EXCEPT !.logout = [pc |-> "idle", result |-> "resolved"]]
    ELSE [c EXCEPT !.logout = [pc |-> "idle", result |-> "rejected"]]

\* logout(), after apiService.logout() has returned: the finally block
LogoutSettled(c) ==
    [ClearAuthData(c) EXCEPT !.logout = [pc |-> "idle", result |-> "resolved"]]

\* The promise of request r settles: fulfilled with data (error = NoError) or
\* rejected with error; then the caller awaiting it continues.
Settle(c, r, error, data) ==
    LET c1 == [c EXCEPT !.req[r] = [@ EXCEPT !.st = "done", !.error = error, !.data = data]]
        c2 == CASE r = "init" -> InitializeAuthSettled(c1)
                [] r = "login" -> LoginSettled(c1)
                [] r = "logout" -> LogoutSettled(c1)
                [] OTHER -> c1
    IN \* the caller has read the outcome: the request is garbage, unless the
       \* caller has put its next request in its place
       [c2 EXCEPT !.settled = @ \cup {Settlement(r, c.req[r].url, error, c.req[r].sends, c.ls)},
                  !.req[r] = IF @.st = "done" THEN NewConfig(NULL) ELSE @]

\* Every request waiting on the refresh promise is rejected, in turn.
RECURSIVE RejectWaiters(_, _, _)
RejectWaiters(c, waiters, refreshError) ==
    IF waiters = {} THEN c
    ELSE LET r == CHOOSE x \in waiters : TRUE
         IN RejectWaiters(Settle(c, r, WaiterRejection(c.req[r], refreshError), NoData),
                          waiters \ {r}, refreshError)

\* ---------------------------------------------------------- GmailProvider
\* A connection status: the fields the store and the pages read.
OAuthStatus(has_token, is_expired, is_connected, authenticated) ==
    [has_token |-> has_token, is_expired |-> is_expired,
     is_connected |-> is_connected, authenticated |-> authenticated]

\* is_expired is boolean | null: "true", "false" or NULL
Truthy(v) == v = "true"

\* what GET /auth/google/status/ answers with; the body may carry a field
\* named authenticated of its own
StatusBodies ==
    {OAuthStatus(h, e, c, a) : h \in BOOLEAN, e \in {"true", "false", NULL},
                               c \in BOOLEAN, a \in BOOLEAN}

\* mutant: whatever was fetched, the disconnected record comes back
GetGoogleOAuthStatusDisconnected(data) ==
    OAuthStatus(FALSE, NULL, FALSE, FALSE)

\* mutant: the authenticated field of the body is kept
GetGoogleOAuthStatusStored(data) == data

\* ApiService.getGoogleOAuthStatus: { ...data, authenticated: ... }
GetGoogleOAuthStatus(data) ==
    [data EXCEPT !.authenticated =
        data.has_token /\ data.is_connected /\ ~Truthy(data.is_expired)]

\* the synthetic record of refreshStatus's catch block and of disconnectGmail
Disconnected == OAuthStatus(FALSE, NULL, FALSE, FALSE)

\* const isConnected = oauthStatus?.authenticated ?? false
isConnected == IF oauthStatus = <<>> THEN FALSE ELSE oauthStatus[1].authenticated

\* err.response?.data?.detail || fallback
ErrorDetails == {NULL, "detail"}
ErrorMessage(detail, fallback) == IF detail # NULL THEN detail ELSE fallback

IdleRevoke == [pc |-> "idle", result |-> "none"]

\* what a task did in the store: the operation that ran or continued, and
\* whether its promise was rejected towards its caller
GmailEvent(op, threw) == [op |-> op, threw |-> threw]

\* GmailProvider's initial state, before the first effect
GmailInit ==
    /\ oauthStatus = <<>>
    /\ gmailLoading = FALSE
    /\ gmailError = NULL
    /\ statusTimers = <<>>
    /\ statusCalls = 0
    /\ revoke = IdleRevoke
    /\ gmailEvent = GmailEvent("none", FALSE)

\* ---------------------------------------------------------- OAuthCallback
SuccessDelay == 2000
ErrorDelay == 3000

\* what searchParams.get returns: null when the parameter is not in the URL,
\* else its value, which may be empty (?error=)
ParamValues(v) == {NULL, "", v}
CallbackParams ==
    [code : ParamValues("c1"), state : ParamValues("s1"),
     error : ParamValues("access_denied")]
NoParams == [code |-> NULL, state |-> NULL, error |-> NULL]

\* if (v) / !v on string | null
TruthyParam(v) == v # NULL /\ v # ""

\* err.message of a rejected exchange call, possibly empty
ExchangeErrors == {"", "Request failed with status code 400"}

\* the component as it is mounted, on a URL with these parameters
CallbackMounted(params) ==
    /\ cbParams = params
    /\ cbStatus = "loading"
    /\ cbMessage = "Connecting to Gmail..."
    /\ cbPc = "mounted"
    /\ cbCalls = <<>>
    /\ cbTimer = <<>>
    /\ cbWaited = 0
    /\ cbLocation = "/"

\* the page is not the callback page: nothing of it runs
CallbackIdle == CallbackMounted(NoParams)

\* --------------------------------------------------------- BulkOperations
MinEmails == 1
MaxEmails == 10000
maxRetries == 3

\* EMAIL_CATEGORIES and TIME_PERIODS values (two of each), and '' for none
Categories == {"category:promotions", "in:spam"}
TimePeriods == {"30d", "90d"}
Operations == {"delete", "recover"}

\* item counts at, beside and between the limits
EmailCounts == {MinEmails - 1, MinEmails, 500, MaxEmails, MaxEmails + 1}

\* Array.prototype.join
RECURSIVE Join(_, _)
Join(parts, sep) ==
    IF parts = <<>> THEN ""
    ELSE IF Len(parts) = 1 THEN parts[1]
    ELSE parts[1] \o sep \o Join(Tail(parts), sep)

\* mutant: the age clause is added for recover as well
GenerateQueryAged(category, period, op) ==
    IF category = "" THEN ""
    ELSE IF op = "recover"
         THEN Join(<<"in:trash">> \o (IF period # "" THEN <<"older_than:" \o period>> ELSE <<>>),
                   " ")
         ELSE Join(<<category>> \o (IF period # "" THEN <<"older_than:" \o period>> ELSE <<>>),
                   " ")

\* generateQuery
GenerateQuery(category, period, op) ==
    LET parts ==
          IF category # ""
          THEN IF op = "recover"
               THEN <<"in:trash">>
               ELSE <<category>> \o
                    (IF period # "" THEN <<"older_than:" \o period>> ELSE <<>>)
          ELSE <<>>
    IN Join(parts, " ")

\* const queryString = useMemo(() => generateQuery(), ...)
queryString == GenerateQuery(selectedCategory, selectedTimePeriod, operation)

\* mutant: the limits themselves are rejected
ValidateFormExclusive(category, period, count, op) ==
    (IF category = "" THEN {"category"} ELSE {})
    \cup (IF op = "delete" /\ period = "" THEN {"timePeriod"} ELSE {})
    \cup (IF count <= MinEmails \/ count >= MaxEmails THEN {"emailCount"} ELSE {})

\* validateForm: the keys of the errors object it builds
ValidateForm(category, period, count, op) ==
    (IF category = "" THEN {"category"} ELSE {})
    \cup (IF op = "delete" /\ period = "" THEN {"timePeriod"} ELSE {})
    \cup (IF count < MinEmails \/ count > MaxEmails THEN {"emailCount"} ELSE {})

\* mutant: handleExecute does not look at the result of validateForm()
ProceedsAlways(errors) == TRUE

\* handleExecute: validateForm() returned true
Proceeds(errors) == errors = {}

\* getErrorMessage
GetErrorMessage(online, status) ==
    IF ~online
    THEN "No internet connection. Please check your network and try again."
    ELSE IF status = 401
    THEN "Gmail authentication expired. Please reconnect your Gmail account from the Dashboard."
    ELSE IF status = 429
    THEN "Too many requests. Please wait a moment and try again."
    ELSE IF status >= 500
    THEN "Server error occurred. Please try again in a few minutes."
    ELSE "An unexpected error occurred"

\* mutant: every job goes to the delete endpoint
JobEndpointDelete(op) == "/gmail/delete-by-query/"

\* handleExecute: bulkDeleteByQuery or bulkRecoverByQuery, by the operation
JobEndpoint(op) ==
    IF op = "delete" THEN "/gmail/delete-by-query/" ELSE "/gmail/recover-by-query/"

\* task_id values the backend hands out
TaskIds == 1..MaxTasks

\* the page as it is mounted, with these form values
BulkMounted(category, period, count, op) ==
    /\ selectedCategory = category
    /\ selectedTimePeriod = period
    /\ emailCount = count
    /\ operation = op
    /\ validationErrors = {}
    /\ isFormValid = FALSE
    /\ effectPending = TRUE
    /\ executing = FALSE
    /\ executeOpen = FALSE
    /\ currentTask = <<>>
    /\ bulkError = <<>>
    /\ bulkSuccess = <<>>
    /\ retryCount = 0
    /\ submits = <<>>
    /\ posts = <<>>
    /\ successTimers = 0
    /\ bulkEvent = "none"
    /\ retries = 0
    /\ mounted = TRUE
    /\ pollTimers = <<>>
    /\ polls = <<>>
    /\ taskStatus = [t \in TaskIds |-> "NONE"]
    /\ completions = 0
    /\ polled = "none"

\* the useState defaults: no category, 90d, 1000 items, delete
BulkIdle == BulkMounted("", "90d", 1000, "delete")

\* ------------------------------------------------------------------ Init
\* A page load. Durable storage holds what an earlier run of the program left:
\* nothing, or a pair it stored.
SessionInit ==
    /\ localStorage \in {[access_token |-> NULL, refresh_token |-> NULL]}
                        \cup {[access_token |-> t.access, refresh_token |-> t.refresh]
                                : t \in TokenPairs}
    /\ isRefreshing = FALSE
    /\ refreshPromise = <<>>
    /\ refreshCalls = 0
    /\ task = NoResponse
    /\ navigatingToLogin = FALSE
    /\ req = [r \in ReqIds |-> NewConfig(NULL)]
    /\ user = NULL
    /\ isAuthenticated = FALSE
    /\ isLoading = TRUE
    /\ initPc = "start"
    /\ login = IdleLogin
    /\ logout = IdleLogout

Init ==
    /\ SessionInit
    /\ GmailInit
    /\ CallbackIdle
    /\ BulkIdle

\* --------------------------------------------------------------- actions
\* AuthProvider mount effect: initializeAuth up to its first await
InitializeAuth ==
    /\ initPc = "start"
    /\ IF localStorage.access_token # NULL
       THEN /\ initPc' = "fetching"
            /\ req' = [req EXCEPT !["init"] = Transmit(NewConfig(ProfileUrl), localStorage)]
            /\ UNCHANGED isLoading
       ELSE /\ initPc' = "done"
            /\ isLoading' = FALSE
            /\ UNCHANGED req
    /\ UNCHANGED <<localStorage, user, isAuthenticated, login, logout>>
    /\ task' = NoResponse
    /\ UNCHANGED apiVars
    /\ UNCHANGED pageVars

\* LoginPage.handleLogin -> login(credentials), up to its first await
Login ==
    /\ initPc # "start"
    /\ login.pc = "idle"
    /\ login' = [IdleLogin EXCEPT !.pc = "login", !.result = "pending"]
    /\ req' = [req EXCEPT !["login"] = Transmit(NewConfig(LoginUrl), localStorage)]
    /\ UNCHANGED <<localStorage, user, isAuthenticated, isLoading, initPc, logout>>
    /\ task' = NoResponse
    /\ UNCHANGED apiVars
    /\ UNCHANGED pageVars

\* LoginPage.handleRegister -> register(userData), up to its first await
Register ==
    /\ initPc # "start"
    /\ login.pc = "idle"
    /\ login' = [IdleLogin EXCEPT !.pc = "register", !.result = "pending"]
    /\ req' = [req EXCEPT !["login"] = Transmit(NewConfig(RegisterUrl), localStorage)]
    /\ UNCHANGED <<localStorage, user, isAuthenticated, isLoading, initPc, logout>>
    /\ task' = NoResponse
    /\ UNCHANGED apiVars
    /\ UNCHANGED pageVars

\* Dashboard logout button -> logout() -> apiService.logout(), up to its first
\* await; with no refresh token stored there is none and logout() runs through.
Logout ==
    /\ isAuthenticated /\ ~isLoading
    /\ logout.pc = "idle"
    /\ IF localStorage.refresh_token # NULL
       THEN Commit([Ctx EXCEPT !.logout = [pc |-> "posting", result |-> "pending"],
                               !.req["logout"] = Transmit(NewConfig(LogoutUrl), localStorage)])
       ELSE Commit(LogoutSettled(Ctx))
    /\ task' = NoResponse
    /\ UNCHANGED apiVars
    /\ UNCHANGED pageVars

\* a page or store issues a request through the client (status fetch, ...)
PageRequest(p) ==
    /\ initPc # "start"
    /\ req[p].st = "idle"
    /\ req' = [req EXCEPT ![p] = Transmit(NewConfig(StatusUrl), localStorage)]
    /\ UNCHANGED <<localStorage, user, isAuthenticated, isLoading, initPc, login, logout>>
    /\ task' = NoResponse
    /\ UNCHANGED apiVars
    /\ UNCHANGED pageVars

\* what the backend answers a fulfilled request with
ResponseBodies(config) ==
    CASE config.url = ProfileUrl -> {UserData(u) : u \in Users}
      [] config.url = LoginUrl -> {TokenData(t) : t \in TokenPairs}
      [] OTHER -> {NoData}

\* a 2xx response: (response) => response, then the caller continues
ResponseOk(r) ==
    /\ req[r].st = "sent"
    /\ \E data \in ResponseBodies(req[r]) :
          LET c2 == Settle(Ctx, r, NoError, data)
          IN /\ Commit(c2)
             /\ task' = Delivered(r, 200, data, {r}, c2.settled)
    /\ UNCHANGED apiVars
    /\ UNCHANGED pageVars

\* an error response: the response interceptor's error handler up to its await
ResponseError(r, status) ==
    /\ req[r].st = "sent"
    /\ LET error == Error(r, status, req[r].sends)
           c2 == Settle(Ctx, r, error, NoData)
       IN
       IF ShouldNotRetry(req[r], localStorage) \/ status # 401
       THEN /\ Commit(c2)
            /\ task' = Delivered(r, status, NoData, {r}, c2.settled)
            /\ UNCHANGED apiVars
       ELSE /\ task' = Delivered(r, status, NoData, {r}, {})
            /\ req' = [req EXCEPT ![r] = [@ EXCEPT !.st = "waiting", !.error = error, !.auth = NULL]]
            /\ IF StartsRefresh(isRefreshing)
               THEN /\ isRefreshing' = TRUE
                    /\ refreshPromise' = <<error>>
                    /\ refreshCalls' = refreshCalls + 1
               ELSE UNCHANGED <<isRefreshing, refreshPromise, refreshCalls>>
            /\ UNCHANGED navigatingToLogin
            /\ UNCHANGED <<localStorage, user, isAuthenticated, isLoading, initPc,
                           login, logout>>
    /\ UNCHANGED pageVars

Waiters == {r \in ReqIds : req[r].st = "waiting"}

\* POST /auth/refresh/ answers with a pair: finally resets the marker, then every
\* waiter stores the pair and issues its request again
RefreshFulfilled(tokens) ==
    /\ refreshCalls > 0
    /\ refreshCalls' = refreshCalls - 1
    /\ task' = Delivered("refresh", 200, TokenData(tokens), Waiters, {})
    /\ isRefreshing' = MarkerAfterSettle(isRefreshing)
    /\ refreshPromise' = IF isRefreshing' THEN refreshPromise ELSE <<>>
    /\ LET ls2 == IF Waiters = {} THEN localStorage ELSE StoreTokens(localStorage, tokens)
       IN /\ localStorage' = ls2
          /\ req' = [r \in ReqIds |->
                        IF r \in Waiters THEN Reissue(req[r], tokens, ls2) ELSE req[r]]
    /\ UNCHANGED <<navigatingToLogin, user, isAuthenticated, isLoading, initPc, login, logout>>
    /\ UNCHANGED pageVars

\* POST /auth/refresh/ fails: the catch handler clears the tokens and navigates,
\* finally resets the marker, then every waiter is rejected
RefreshRejected ==
    /\ refreshCalls > 0
    /\ refreshCalls' = refreshCalls - 1
    /\ navigatingToLogin' = TRUE
    /\ isRefreshing' = MarkerAfterSettle(isRefreshing)
    /\ refreshPromise' = IF isRefreshing' THEN refreshPromise ELSE <<>>
    /\ LET refreshError == IF refreshPromise = <<>> THEN NoError ELSE refreshPromise[1]
           c1 == [Ctx EXCEPT !.ls = ApiClearAuthData(@)]
           c2 == RejectWaiters(c1, Waiters, refreshError)
       IN /\ Commit(c2)
          /\ task' = Delivered("refresh", 401, NoData, Waiters, c2.settled)
    /\ UNCHANGED pageVars

\* the document is replaced (navigation to /login, or the user reloads): memory
\* is reset, durable storage stays
Reload ==
    /\ initPc # "start"
    /\ UNCHANGED localStorage
    /\ isRefreshing' = FALSE
    /\ refreshPromise' = <<>>
    /\ refreshCalls' = 0
    /\ task' = NoResponse
    /\ navigatingToLogin' = FALSE
    /\ req' = [r \in ReqIds |-> NewConfig(NULL)]
    /\ user' = NULL
    /\ isAuthenticated' = FALSE
    /\ isLoading' = TRUE
    /\ initPc' = "start"
    /\ login' = IdleLogin
    /\ logout' = IdleLogout
    /\ UNCHANGED pageVars

Next ==
    \/ InitializeAuth
    \/ Login
    \/ Register
    \/ Logout
    \/ \E p \in PageIds : PageRequest(p)
    \/ \E r \in ReqIds : ResponseOk(r)
    \/ \E r \in ReqIds : \E status \in {401, 500} : ResponseError(r, status)
    \/ \E tokens \in TokenPairs : RefreshFulfilled(tokens)
    \/ RefreshRejected
    \/ Reload

Spec == Init /\ [][Next]_vars

\* ------------------------------------------------- GmailProvider: actions
\* The store sees the session through useAuth().isAuthenticated and the
\* backend through the promises of the client's methods; here the session
\* store is any sequence of changes of isAuthenticated, and a call is fulfilled
\* or rejected as the client decides.

\* refreshStatus up to its await, in the closure of a render in which
\* isAuthenticated had the value `authenticated`
RefreshStatus(authenticated) ==
    IF ~authenticated
    THEN UNCHANGED <<oauthStatus, gmailLoading, gmailError, statusCalls>>
    ELSE /\ gmailLoading' = TRUE
         /\ gmailError' = NULL
         /\ statusCalls' = statusCalls + 1
         /\ UNCHANGED oauthStatus

\* mutant: the catch block keeps the stored status
StatusAfterFailureKept(status) == status

\* refreshStatus's catch block: the status it stores
StatusAfterFailure(status) == <<Disconnected>>

\* mutant: a failed revoke resets the status all the same
StatusAfterRevokeFailureReset(status) == <<Disconnected>>

\* disconnectGmail's catch block: the status it leaves
StatusAfterRevokeFailure(status) == status

\* AuthProvider commits isAuthenticated = b; GmailProvider renders again and its
\* effect on [isAuthenticated] runs: a delayed refreshStatus of this render, or
\* the status is dropped
AuthChanged(b) ==
    /\ b # isAuthenticated
    /\ isAuthenticated' = b
    /\ IF b
       THEN /\ Len(statusTimers) < MaxTimers
            /\ statusTimers' = Append(statusTimers, b)
            /\ UNCHANGED oauthStatus
       ELSE /\ oauthStatus' = <<>>
            /\ UNCHANGED statusTimers
    /\ gmailEvent' = GmailEvent("effect", FALSE)
    /\ UNCHANGED <<gmailLoading, gmailError, statusCalls, revoke>>
    /\ UNCHANGED sessionVars
    /\ UNCHANGED <<callbackVars, bulkVars>>

\* the delay has elapsed: the callback calls the refreshStatus it closed over
TimerFires ==
    /\ statusTimers # <<>>
    /\ statusCalls < MaxStatusCalls
    /\ statusTimers' = Tail(statusTimers)
    /\ RefreshStatus(Head(statusTimers))
    /\ gmailEvent' = GmailEvent("refreshStatus", FALSE)
    /\ UNCHANGED <<revoke, isAuthenticated>>
    /\ UNCHANGED sessionVars
    /\ UNCHANGED <<callbackVars, bulkVars>>

\* Dashboard.refreshAllData -> refreshStatus() of the current render; the
\* Dashboard is mounted behind ProtectedRoute
RefreshAllData ==
    /\ isAuthenticated
    /\ statusCalls < MaxStatusCalls
    /\ RefreshStatus(isAuthenticated)
    /\ gmailEvent' = GmailEvent("refreshStatus", FALSE)
    /\ UNCHANGED <<statusTimers, revoke, isAuthenticated>>
    /\ UNCHANGED sessionVars
    /\ UNCHANGED <<callbackVars, bulkVars>>

\* getGoogleOAuthStatus() is fulfilled: setOauthStatus(status), finally
StatusFulfilled(data) ==
    /\ statusCalls > 0
    /\ statusCalls' = statusCalls - 1
    /\ oauthStatus' = <<GetGoogleOAuthStatus(data)>>
    /\ gmailLoading' = FALSE
    /\ gmailEvent' = GmailEvent("statusFulfilled", FALSE)
    /\ UNCHANGED <<gmailError, statusTimers, revoke, isAuthenticated>>
    /\ UNCHANGED sessionVars
    /\ UNCHANGED <<callbackVars, bulkVars>>

\* getGoogleOAuthStatus() is rejected: catch, finally; nothing is rethrown
StatusRejected(detail) ==
    /\ statusCalls > 0
    /\ statusCalls' = statusCalls - 1
    /\ gmailError' = ErrorMessage(detail, "Failed to check Gmail connection")
    /\ oauthStatus' = StatusAfterFailure(oauthStatus)
    /\ gmailLoading' = FALSE
    /\ gmailEvent' = GmailEvent("statusRejected", FALSE)
    /\ UNCHANGED <<statusTimers, revoke, isAuthenticated>>
    /\ UNCHANGED sessionVars
    /\ UNCHANGED <<callbackVars, bulkVars>>

\* Dashboard.handleDisconnect -> disconnectGmail() up to its await
DisconnectGmail ==
    /\ isAuthenticated
    /\ revoke.pc = "idle"
    /\ revoke' = [pc |-> "revoking", result |-> "pending"]
    /\ gmailLoading' = TRUE
    /\ gmailError' = NULL
    /\ gmailEvent' = GmailEvent("disconnectGmail", FALSE)
    /\ UNCHANGED <<oauthStatus, statusTimers, statusCalls, isAuthenticated>>
    /\ UNCHANGED sessionVars
    /\ UNCHANGED <<callbackVars, bulkVars>>

\* revokeGoogleAuth() is fulfilled
RevokeFulfilled ==
    /\ revoke.pc = "revoking"
    /\ revoke' = [pc |-> "idle", result |-> "resolved"]
    /\ oauthStatus' = <<Disconnected>>
    /\ gmailLoading' = FALSE
    /\ gmailEvent' = GmailEvent("revokeFulfilled", FALSE)
    /\ UNCHANGED <<gmailError, statusTimers, statusCalls, isAuthenticated>>
    /\ UNCHANGED sessionVars
    /\ UNCHANGED <<callbackVars, bulkVars>>

\* revokeGoogleAuth() is rejected: catch (setError, throw err), finally
RevokeRejected(detail) ==
    /\ revoke.pc = "revoking"
    /\ revoke' = [pc |-> "idle", result |-> "rejected"]
    /\ gmailError' = ErrorMessage(detail, "Failed to disconnect Gmail")
    /\ oauthStatus' = StatusAfterRevokeFailure(oauthStatus)
    /\ gmailLoading' = FALSE
    /\ gmailEvent' = GmailEvent("revokeRejected", TRUE)
    /\ UNCHANGED <<statusTimers, statusCalls, isAuthenticated>>
    /\ UNCHANGED sessionVars
    /\ UNCHANGED <<callbackVars, bulkVars>>

GmailNext ==
    \/ \E b \in BOOLEAN : AuthChanged(b)
    \/ TimerFires
    \/ RefreshAllData
    \/ \E data \in StatusBodies : StatusFulfilled(data)
    \/ \E detail \in ErrorDetails : StatusRejected(detail)
    \/ DisconnectGmail
    \/ RevokeFulfilled
    \/ \E detail \in ErrorDetails : RevokeRejected(detail)

GmailSpec == Init /\ [][GmailNext]_vars

\* ------------------------------------------------- OAuthCallback: actions
\* The provider has redirected the browser to /oauth-callback?...; the page
\* loads and the component is mounted with status loading.
CallbackInit ==
    /\ SessionInit
    /\ GmailInit
    /\ \E params \in CallbackParams : CallbackMounted(params)
    /\ BulkIdle

\* mutant: the error parameter is not looked at
ShouldExchangeIgnoringError(params) ==
    TruthyParam(params.code) /\ TruthyParam(params.state)

\* handleCallback: neither throw is reached
ShouldExchange(params) ==
    /\ ~TruthyParam(params.error)
    /\ ~(~TruthyParam(params.code) \/ ~TruthyParam(params.state))

\* the message of the Error thrown before the call
ThrownMessage(params) ==
    IF TruthyParam(params.error)
    THEN "OAuth error: " \o params.error
    ELSE "Missing OAuth parameters (code or state)"

\* mutant: the error path redirects as soon as the success path
CatchDelayShort == SuccessDelay

\* the delay of the catch block's redirect timer
CatchDelay == ErrorDelay

\* the catch block: error display state, message, redirect timer
CallbackCatch(message) ==
    /\ cbStatus' = "error"
    /\ cbMessage' = IF message # "" THEN message ELSE "Failed to connect Gmail"
    /\ cbTimer' = <<CatchDelay>>
    /\ cbWaited' = 0
    /\ cbPc' = "settled"

\* the mount effect: handleCallback up to its await, or through its catch
HandleCallback ==
    /\ cbLocation = "/"
    /\ cbPc = "mounted"
    /\ cbLocation' = "/oauth-callback"
    /\ IF ShouldExchange(cbParams)
       THEN /\ cbCalls' = Append(cbCalls, <<cbParams.code, cbParams.state>>)
            /\ cbPc' = "exchanging"
            /\ UNCHANGED <<cbStatus, cbMessage, cbTimer, cbWaited>>
       ELSE /\ CallbackCatch(ThrownMessage(cbParams))
            /\ UNCHANGED cbCalls
    /\ UNCHANGED <<cbParams, gmailVars, bulkVars, isAuthenticated>>
    /\ UNCHANGED sessionVars

\* handleGoogleCallback() is fulfilled
ExchangeFulfilled ==
    /\ cbPc = "exchanging" /\ cbLocation = "/oauth-callback"
    /\ cbStatus' = "success"
    /\ cbMessage' = "Gmail connected successfully! Redirecting to dashboard..."
    /\ cbTimer' = <<SuccessDelay>>
    /\ cbWaited' = 0
    /\ cbPc' = "settled"
    /\ UNCHANGED <<cbParams, cbCalls, cbLocation, gmailVars, bulkVars, isAuthenticated>>
    /\ UNCHANGED sessionVars

\* handleGoogleCallback() is rejected; when the rejection follows a failed
\* token refresh the client has cleared the tokens and assigned
\* window.location.href = '/login' before the handler's catch block runs
ExchangeRejected(message, refreshFailed) ==
    /\ cbPc = "exchanging" /\ cbLocation = "/oauth-callback"
    /\ CallbackCatch(message)
    /\ IF refreshFailed
       THEN /\ Present(localStorage)
            /\ localStorage' = ApiClearAuthData(localStorage)
            /\ navigatingToLogin' = TRUE
       ELSE UNCHANGED <<localStorage, navigatingToLogin>>
    /\ UNCHANGED <<cbParams, cbCalls, cbLocation, gmailVars, bulkVars, isAuthenticated>>
    /\ UNCHANGED <<isRefreshing, refreshPromise, refreshCalls, task, req, user,
                   isLoading, initPc, login, logout>>

\* time passes while the redirect timer is pending
Tick ==
    /\ cbTimer # <<>> /\ cbTimer[1] > 0
    /\ cbTimer' = <<cbTimer[1] - 1000>>
    /\ cbWaited' = cbWaited + 1000
    /\ UNCHANGED <<cbParams, cbStatus, cbMessage, cbPc, cbCalls, cbLocation>>
    /\ UNCHANGED <<gmailVars, bulkVars, isAuthenticated>>
    /\ UNCHANGED sessionVars

\* the redirect timer fires: navigate('/dashboard')
RedirectFires ==
    /\ cbTimer # <<>> /\ cbTimer[1] = 0
    /\ cbTimer' = <<>>
    /\ cbLocation' = "/dashboard"
    /\ UNCHANGED <<cbParams, cbStatus, cbMessage, cbPc, cbCalls, cbWaited>>
    /\ UNCHANGED <<gmailVars, bulkVars, isAuthenticated>>
    /\ UNCHANGED sessionVars

\* the navigation the client started replaces the document: its timers are gone
PageReplaced ==
    /\ navigatingToLogin
    /\ navigatingToLogin' = FALSE
    /\ cbLocation' = "/login"
    /\ cbTimer' = <<>>
    /\ UNCHANGED <<cbParams, cbStatus, cbMessage, cbPc, cbCalls, cbWaited>>
    /\ UNCHANGED <<gmailVars, bulkVars, isAuthenticated>>
    /\ UNCHANGED <<localStorage, isRefreshing, refreshPromise, refreshCalls, task, req,
                   user, isLoading, initPc, login, logout>>

CallbackNext ==
    \/ HandleCallback
    \/ ExchangeFulfilled
    \/ \E message \in ExchangeErrors : \E refreshFailed \in BOOLEAN :
          ExchangeRejected(message, refreshFailed)
    \/ Tick
    \/ RedirectFires
    \/ PageReplaced

CallbackSpec == CallbackInit /\ [][CallbackNext]_vars

\* a pending timer fires and a started navigation completes: the browser's
\* event loop keeps running
CallbackLiveSpec ==
    /\ CallbackSpec
    /\ WF_vars(Tick)
    /\ WF_vars(RedirectFires)
    /\ WF_vars(PageReplaced)

\* ------------------------------------------------ BulkOperations: actions
\* validateForm, generateQuery and handleExecute applied to any form state:
\* the form values are the input, drawn from every combination of category,
\* age bucket, operation and item count, whether or not the page's own
\* handlers can produce it.
FormInit ==
    /\ SessionInit
    /\ GmailInit
    /\ CallbackIdle
    /\ \E category \in Categories \cup {""}, period \in TimePeriods \cup {""},
          count \in EmailCounts, op \in Operations :
          BulkMounted(category, period, count, op)

\* the effect on [validateForm]
ValidateEffect ==
    /\ effectPending
    /\ effectPending' = FALSE
    /\ LET errors == ValidateForm(selectedCategory, selectedTimePeriod, emailCount, operation)
       IN /\ validationErrors' = errors
          /\ isFormValid' = (errors = {})
    /\ bulkEvent' = "validateForm"
    /\ UNCHANGED <<formVars, executing, executeOpen, currentTask, bulkError, bulkSuccess,
                   retryCount, submits, posts, successTimers>>
    /\ UNCHANGED <<retries, pollVars>>
    /\ UNCHANGED <<gmailVars, callbackVars, isAuthenticated>>
    /\ UNCHANGED sessionVars

\* a submission awaiting its response: the job, and the retryCount the
\* handleExecute closure that posted it holds
Submission(job, count) ==
    [endpoint |-> job.endpoint, q |-> job.q, max_emails |-> job.max_emails,
     retryCount |-> count]

\* handleExecute of the current render, up to its await
Execute ==
    LET errors == ValidateForm(selectedCategory, selectedTimePeriod, emailCount, operation)
        job == [endpoint |-> JobEndpoint(operation),
                q |-> GenerateQuery(selectedCategory, selectedTimePeriod, operation),
                max_emails |-> emailCount]
    IN /\ validationErrors' = errors
       /\ isFormValid' = (errors = {})
       /\ IF ~Proceeds(errors)
          THEN /\ bulkError' = <<"Please fix the validation errors before proceeding">>
               /\ UNCHANGED <<executing, bulkSuccess, submits, posts>>
          ELSE /\ executing' = TRUE
               /\ bulkError' = <<>>
               /\ bulkSuccess' = <<>>
               /\ submits' = Append(submits, Submission(job, retryCount))
               /\ posts' = Append(posts, job)

\* the confirmation dialog's button: handleExecute up to its await
HandleExecute ==
    /\ ~effectPending
    /\ Len(posts) < MaxSubmits
    /\ Execute
    /\ bulkEvent' = "handleExecute"
    /\ UNCHANGED <<formVars, effectPending, executeOpen, currentTask, retryCount,
                   successTimers>>
    /\ UNCHANGED <<retries, pollVars>>
    /\ UNCHANGED <<gmailVars, callbackVars, isAuthenticated>>
    /\ UNCHANGED sessionVars

\* the i-th pending submission leaves the list
Settled(i) == SubSeq(submits, 1, i - 1) \o SubSeq(submits, i + 1, Len(submits))

\* the job was accepted: success message, dialog closed, retry counter reset,
\* message timer set; finally
SubmitFulfilled(i) ==
    /\ i \in 1..Len(submits)
    /\ submits' = Settled(i)
    /\ bulkSuccess' = <<[text |-> IF submits[i].endpoint = "/gmail/delete-by-query/"
                                  THEN "Delete operation started successfully!"
                                  ELSE "Recovery operation started successfully!",
                         upTo |-> submits[i].max_emails]>>
    /\ executeOpen' = FALSE
    /\ retryCount' = 0
    /\ successTimers' = successTimers + 1
    /\ executing' = FALSE
    /\ bulkEvent' = "submitFulfilled"
    /\ UNCHANGED <<formVars, validationErrors, isFormValid, effectPending, currentTask,
                   bulkError, posts>>
    /\ UNCHANGED <<retries, pollVars>>
    /\ UNCHANGED <<gmailVars, callbackVars, isAuthenticated>>
    /\ UNCHANGED sessionVars

\* the submission failed: catch, finally
SubmitRejected(i, online, status) ==
    /\ i \in 1..Len(submits)
    /\ submits' = Settled(i)
    /\ LET errorMessage == GetErrorMessage(online, status)
       IN bulkError' =
            IF status # 401 /\ submits[i].retryCount < maxRetries
            THEN <<errorMessage \o " (Attempt " \o ToString(submits[i].retryCount + 1)
                     \o "/" \o ToString(maxRetries + 1) \o ")">>
            ELSE <<errorMessage>>
    /\ executing' = FALSE
    /\ bulkEvent' = "submitRejected"
    /\ UNCHANGED <<formVars, validationErrors, isFormValid, effectPending, executeOpen,
                   currentTask, bulkSuccess, retryCount, posts, successTimers>>
    /\ UNCHANGED <<retries, pollVars>>
    /\ UNCHANGED <<gmailVars, callbackVars, isAuthenticated>>
    /\ UNCHANGED sessionVars

\* five seconds after a success: setSuccess(null)
SuccessExpires ==
    /\ successTimers > 0
    /\ successTimers' = successTimers - 1
    /\ bulkSuccess' = <<>>
    /\ bulkEvent' = "successExpires"
    /\ UNCHANGED <<formVars, validationErrors, isFormValid, effectPending, executing,
                   executeOpen, currentTask, bulkError, retryCount, submits, posts>>
    /\ UNCHANGED <<retries, pollVars>>
    /\ UNCHANGED <<gmailVars, callbackVars, isAuthenticated>>
    /\ UNCHANGED sessionVars

\* const canRetry = retryCount < maxRetries && !error?.includes('Authentication')
canRetry ==
    /\ retryCount < maxRetries
    /\ ~(bulkError # <<>> /\ Substring(bulkError[1], "Authentication"))

\* mutant: the retry counter survives a change of the inputs
SetFormKeepingCount(category, period, count, op) ==
    LET changed == <<category, period, count, op>> #
                     <<selectedCategory, selectedTimePeriod, emailCount, operation>>
        errors == ValidateForm(category, period, count, op)
    IN /\ selectedCategory' = category
       /\ selectedTimePeriod' = period
       /\ emailCount' = count
       /\ operation' = op
       /\ IF changed
          THEN /\ validationErrors' = IF op # operation THEN {} ELSE errors
               /\ isFormValid' = (errors = {})
               /\ retries' = 0
          ELSE UNCHANGED <<validationErrors, isFormValid, retries>>
       /\ UNCHANGED retryCount
       /\ IF op # operation
          THEN bulkError' = <<>> /\ bulkSuccess' = <<>>
          ELSE UNCHANGED <<bulkError, bulkSuccess>>

\* handlers that set form values, with the effects of the render that follows:
\* validation, the reset of the alerts when the operation changed, the reset
\* of the retry counter when any of the four values changed
SetForm(category, period, count, op) ==
    LET changed == <<category, period, count, op>> #
                     <<selectedCategory, selectedTimePeriod, emailCount, operation>>
        errors == ValidateForm(category, period, count, op)
    IN /\ selectedCategory' = category
       /\ selectedTimePeriod' = period
       /\ emailCount' = count
       /\ operation' = op
       /\ IF changed
          THEN /\ validationErrors' = IF op # operation THEN {} ELSE errors
               /\ isFormValid' = (errors = {})
               /\ retryCount' = 0
               /\ retries' = 0
          ELSE UNCHANGED <<validationErrors, isFormValid, retryCount, retries>>
       /\ IF op # operation
          THEN bulkError' = <<>> /\ bulkSuccess' = <<>>
          ELSE UNCHANGED <<bulkError, bulkSuccess>>

\* the quick action "Delete 500 Spam"
HandleQuickAction3 ==
    /\ ~effectPending
    /\ ~executing
    /\ SetForm("in:spam", "30d", 500, "delete")
    /\ bulkEvent' = "handleQuickAction"
    /\ UNCHANGED <<effectPending, executing, executeOpen, currentTask, submits, posts,
                   successTimers, pollVars>>
    /\ UNCHANGED <<gmailVars, callbackVars, isAuthenticated>>
    /\ UNCHANGED sessionVars

\* the operation cards
HandleOperationChange(newOperation) ==
    /\ ~effectPending
    /\ SetForm(selectedCategory, selectedTimePeriod, emailCount, newOperation)
    /\ bulkEvent' = "handleOperationChange"
    /\ UNCHANGED <<effectPending, executing, executeOpen, currentTask, submits, posts,
                   successTimers, pollVars>>
    /\ UNCHANGED <<gmailVars, callbackVars, isAuthenticated>>
    /\ UNCHANGED sessionVars

\* the Retry button of the error alert: shown while canRetry, disabled while
\* executing; retryOperation, and the handleExecute it calls up to its await
RetryOperation ==
    /\ bulkError # <<>>
    /\ canRetry
    /\ ~executing
    /\ Len(posts) < MaxSubmits + MaxRetryPosts
    /\ IF retryCount >= maxRetries
       THEN /\ bulkError' = <<"Maximum retry attempts reached. Please try again later.">>
            /\ UNCHANGED <<validationErrors, isFormValid, executing, bulkSuccess, submits,
                           posts, retryCount, retries>>
       ELSE /\ retryCount' = retryCount + 1
            /\ Execute
            /\ retries' = IF posts' # posts THEN retries + 1 ELSE retries
    /\ bulkEvent' = "retryOperation"
    /\ UNCHANGED <<formVars, effectPending, executeOpen, currentTask, successTimers,
                   pollVars>>
    /\ UNCHANGED <<gmailVars, callbackVars, isAuthenticated>>
    /\ UNCHANGED sessionVars

FormNext ==
    \/ ValidateEffect
    \/ HandleExecute
    \/ \E i \in 1..MaxSubmits : SubmitFulfilled(i)
    \/ \E i \in 1..MaxSubmits : \E online \in BOOLEAN : \E status \in {400, 401, 429, 500} :
          SubmitRejected(i, online, status)
    \/ SuccessExpires

FormSpec == FormInit /\ [][FormNext]_vars

\* the page from its mount, with the Retry button and handlers that change the
\* inputs
RetryNext ==
    \/ ValidateEffect
    \/ HandleExecute
    \/ \E i \in 1..(MaxSubmits + MaxRetryPosts) : SubmitFulfilled(i)
    \/ \E i \in 1..(MaxSubmits + MaxRetryPosts) : \E status \in {401, 500} :
          SubmitRejected(i, TRUE, status)
    \/ SuccessExpires
    \/ RetryOperation
    \/ HandleQuickAction3
    \/ \E newOperation \in Operations : HandleOperationChange(newOperation)

RetrySpec == Init /\ [][RetryNext]_vars

\* ------------------------------------- BulkOperations: the tracked task
\* The page version that tracks the submitted job: handleExecute stores the
\* returned task and the effect on [currentTask] polls its status. The backend
\* moves a task from PENDING through PROGRESS to SUCCESS or FAILURE; a status
\* call is answered with a status the task had between the call and its
\* response.
Task(task_id, status) == [task_id |-> task_id, status |-> status]

TaskStatuses == {"PENDING", "PROGRESS", "SUCCESS", "FAILURE"}

Rank(status) ==
    CASE status = "NONE" -> 0
      [] status = "PENDING" -> 1
      [] status = "PROGRESS" -> 2
      [] OTHER -> 3

\* getTaskStatus: what a call issued when the task was at `from` can return
\* while the task is at `now`
Answers(from, now) ==
    {s \in TaskStatuses : /\ Rank(from) <= Rank(s)
                          /\ Rank(s) <= Rank(now)
                          /\ Rank(s) = 3 => s = now}

\* mutant: a task in PROGRESS is not polled
PollablePendingOnly(tracked) ==
    tracked # <<>> /\ tracked[1].status = "PENDING"

\* currentTask && ['PENDING', 'PROGRESS'].includes(currentTask.status)
Pollable(tracked) ==
    tracked # <<>> /\ tracked[1].status \in {"PENDING", "PROGRESS"}

\* mutant: the cleanup leaves the interval running
ClearedNever(timers, old) == timers

\* the cleanup of the effect's previous run: if (interval) clearInterval(interval)
Cleared(timers, old) ==
    IF Pollable(old) THEN SubSeq(timers, 1, Len(timers) - 1) ELSE timers

\* the effect on [currentTask] after a render that replaced currentTask
PollEffect(timers, old, new) ==
    IF new = <<>> /\ old = <<>>
    THEN timers
    ELSE IF Pollable(new)
         THEN Append(Cleared(timers, old), new[1].task_id)
         ELSE Cleared(timers, old)

\* the poll callback after setCurrentTask(status): a terminal status discards
\* the task
TaskAfterPoll(status) ==
    IF status.status \in {"SUCCESS", "FAILURE"} THEN <<>> ELSE <<status>>

\* what the poll effect and its handlers leave alone
formOnlyVars == <<formVars, validationErrors, isFormValid, effectPending, retryCount,
                  successTimers, retries>>

\* the page with its defaults and the spam category chosen, in a session with
\* a stored pair
PollInit ==
    /\ SessionInit
    /\ localStorage = StoreTokens(localStorage, AuthTokens("1"))
    /\ GmailInit
    /\ CallbackIdle
    /\ BulkMounted("in:spam", "90d", 1000, "delete")

\* the Execute button: opens the confirmation dialog
ExecuteDialogOpen ==
    /\ mounted
    /\ ~executing /\ selectedCategory # ""
    /\ executeOpen' = TRUE
    /\ bulkEvent' = "executeDialogOpen"
    /\ polled' = "none"
    /\ UNCHANGED <<formOnlyVars, executing, currentTask, bulkError, bulkSuccess, submits,
                   posts, mounted, pollTimers, polls, taskStatus, completions>>
    /\ UNCHANGED <<gmailVars, callbackVars, isAuthenticated>>
    /\ UNCHANGED sessionVars

\* the dialog's button: handleExecute up to its await
HandleExecuteTracked ==
    /\ mounted
    /\ executeOpen
    /\ Len(posts) < MaxTasks
    /\ LET query == GenerateQuery(selectedCategory, selectedTimePeriod, operation)
           job == [endpoint |-> JobEndpoint(operation), q |-> query,
                   max_emails |-> emailCount]
       IN IF query = ""
          THEN /\ bulkError' = <<"Please select a category">>
               /\ UNCHANGED <<executing, bulkSuccess, submits, posts>>
          ELSE /\ executing' = TRUE
               /\ bulkError' = <<>>
               /\ bulkSuccess' = <<>>
               /\ submits' = Append(submits, job)
               /\ posts' = Append(posts, job)
    /\ bulkEvent' = "handleExecute"
    /\ polled' = "none"
    /\ UNCHANGED <<formOnlyVars, executeOpen, currentTask, mounted, pollTimers, polls,
                   taskStatus, completions>>
    /\ UNCHANGED <<gmailVars, callbackVars, isAuthenticated>>
    /\ UNCHANGED sessionVars

\* the job was accepted: the backend has created the task; the page stores it
\* as PENDING and closes the dialog, and the poll effect runs for it
TrackedFulfilled(i) ==
    /\ i \in 1..Len(submits)
    /\ submits' = Settled(i)
    /\ \E t \in TaskIds :
          /\ taskStatus[t] = "NONE"
          /\ \A u \in TaskIds : u < t => taskStatus[u] # "NONE"
          /\ taskStatus' = [taskStatus EXCEPT ![t] = "PENDING"]
          /\ IF mounted
             THEN /\ currentTask' = <<Task(t, "PENDING")>>
                  /\ executeOpen' = FALSE
                  /\ pollTimers' = PollEffect(pollTimers, currentTask, currentTask')
             ELSE UNCHANGED <<currentTask, executeOpen, pollTimers>>
    /\ bulkEvent' = "submitFulfilled"
    /\ polled' = "none"
    /\ UNCHANGED <<formOnlyVars, executing, bulkError, bulkSuccess, posts, mounted, polls,
                   completions>>
    /\ UNCHANGED <<gmailVars, callbackVars, isAuthenticated>>
    /\ UNCHANGED sessionVars

\* the submission failed: catch
TrackedRejected(i, detail) ==
    /\ i \in 1..Len(submits)
    /\ submits' = Settled(i)
    /\ IF mounted
       THEN /\ bulkError' = <<ErrorMessage(detail, "Failed to start " \o operation
                                                     \o " operation")>>
            /\ executing' = FALSE
       ELSE UNCHANGED <<bulkError, executing>>
    /\ bulkEvent' = "submitRejected"
    /\ polled' = "none"
    /\ UNCHANGED <<formOnlyVars, executeOpen, currentTask, bulkSuccess, posts, mounted,
                   pollTimers, polls, taskStatus, completions>>
    /\ UNCHANGED <<gmailVars, callbackVars, isAuthenticated>>
    /\ UNCHANGED sessionVars

\* the backend's worker moves task t on
BackendAdvance(t, status) ==
    /\ taskStatus[t] \in {"PENDING", "PROGRESS"}
    /\ Rank(status) > Rank(taskStatus[t])
    /\ taskStatus' = [taskStatus EXCEPT ![t] = status]
    /\ bulkEvent' = "none"
    /\ polled' = "none"
    /\ UNCHANGED <<formOnlyVars, executing, executeOpen, currentTask, bulkError,
                   bulkSuccess, submits, posts, mounted, pollTimers, polls, completions>>
    /\ UNCHANGED <<gmailVars, callbackVars, isAuthenticated>>
    /\ UNCHANGED sessionVars

\* two seconds have passed on interval k: its callback calls
\* getTaskStatus(currentTask.task_id) with the task it closed over
PollTick(k) ==
    /\ k \in 1..Len(pollTimers)
    /\ Len(polls) < MaxPolls
    /\ polls' = Append(polls, [task_id |-> pollTimers[k],
                               from |-> taskStatus[pollTimers[k]]])
    /\ bulkEvent' = "pollTick"
    /\ polled' = "none"
    /\ UNCHANGED <<formOnlyVars, executing, executeOpen, currentTask, bulkError,
                   bulkSuccess, submits, posts, mounted, pollTimers, taskStatus,
                   completions>>
    /\ UNCHANGED <<gmailVars, callbackVars, isAuthenticated>>
    /\ UNCHANGED sessionVars

\* the k-th status call in flight leaves the list
Polled(k) == SubSeq(polls, 1, k - 1) \o SubSeq(polls, k + 1, Len(polls))

\* a status call is answered: the callback continues after its await
PollFulfilled(k, s) ==
    /\ k \in 1..Len(polls)
    /\ s \in Answers(polls[k].from, taskStatus[polls[k].task_id])
    /\ polls' = Polled(k)
    /\ polled' = s
    /\ IF mounted
       THEN /\ currentTask' = TaskAfterPoll(Task(polls[k].task_id, s))
            /\ pollTimers' = PollEffect(pollTimers, currentTask, currentTask')
            /\ CASE s = "SUCCESS" ->
                       /\ bulkSuccess' = <<"Operation completed!">>
                       /\ completions' = completions + 1
                       /\ executing' = FALSE
                       /\ UNCHANGED bulkError
                 [] s = "FAILURE" ->
                       /\ bulkError' = <<"Operation failed: Unknown error">>
                       /\ executing' = FALSE
                       /\ UNCHANGED <<bulkSuccess, completions>>
                 [] OTHER ->
                       UNCHANGED <<bulkSuccess, bulkError, executing, completions>>
       ELSE UNCHANGED <<currentTask, pollTimers, bulkSuccess, bulkError, executing,
                        completions>>
    /\ bulkEvent' = "pollFulfilled"
    /\ UNCHANGED <<formOnlyVars, executeOpen, submits, posts, mounted, taskStatus>>
    /\ UNCHANGED <<gmailVars, callbackVars, isAuthenticated>>
    /\ UNCHANGED sessionVars

\* a status call fails: catch (console.error)
PollRejected(k) ==
    /\ k \in 1..Len(polls)
    /\ polls' = Polled(k)
    /\ bulkEvent' = "pollRejected"
    /\ polled' = "none"
    /\ UNCHANGED <<formOnlyVars, executing, executeOpen, currentTask, bulkError,
                   bulkSuccess, submits, posts, mounted, pollTimers, taskStatus,
                   completions>>
    /\ UNCHANGED <<gmailVars, callbackVars, isAuthenticated>>
    /\ UNCHANGED sessionVars

\* the page is left: the effect's cleanup runs
Unmount ==
    /\ mounted
    /\ mounted' = FALSE
    /\ pollTimers' = Cleared(pollTimers, currentTask)
    /\ bulkEvent' = "unmount"
    /\ polled' = "none"
    /\ UNCHANGED <<formOnlyVars, executing, executeOpen, currentTask, bulkError,
                   bulkSuccess, submits, posts, polls, taskStatus, completions>>
    /\ UNCHANGED <<gmailVars, callbackVars, isAuthenticated>>
    /\ UNCHANGED sessionVars

PollNext ==
    \/ ExecuteDialogOpen
    \/ HandleExecuteTracked
    \/ \E i \in 1..MaxTasks : TrackedFulfilled(i)
    \/ \E i \in 1..MaxTasks : \E detail \in ErrorDetails : TrackedRejected(i, detail)
    \/ \E t \in TaskIds : \E status \in TaskStatuses : BackendAdvance(t, status)
    \/ \E k \in 1..MaxTasks : PollTick(k)
    \/ \E k \in 1..MaxPolls : \E s \in TaskStatuses : PollFulfilled(k, s)
    \/ \E k \in 1..MaxPolls : PollRejected(k)
    \/ Unmount

PollSpec == PollInit /\ [][PollNext]_vars

\* the backend's worker keeps working, the intervals keep firing, and status
\* calls are answered again and again
PollLiveSpec ==
    /\ PollSpec
    /\ WF_vars(\E t \in TaskIds : \E status \in TaskStatuses : BackendAdvance(t, status))
    /\ WF_vars(\E k \in 1..MaxTasks : PollTick(k))
    /\ SF_vars(\E k \in 1..MaxPolls : \E s \in TaskStatuses : PollFulfilled(k, s))

\* ------------------------------------------------------------ properties

\* C1: while requests wait for a refresh exactly one refresh call is
\* outstanding, however many they are; and when that call is fulfilled every
\* request that waited for it is on the wire again, marked as a retry, carrying
\* the access token that refresh returned.
C1_OneRefreshAllRetried ==
    /\ Waiters # {} => refreshCalls = 1
    /\ (task.src = "refresh" /\ task.status = 200) =>
          \A r \in task.woke :
              /\ req[r].st = "sent"
              /\ req[r].retry
              /\ req[r].sends = 2
              /\ req[r].auth = task.data.tokens.access

C1_Witness ==
    /\ task.src = "refresh" /\ task.status = 200
    /\ Cardinality(task.woke) >= 2
    /\ \A r \in task.woke : req[r].st = "sent" /\ req[r].auth = task.data.tokens.access

\* C2: at most one refresh call is outstanding, and the in-flight marker
\* (isRefreshing, refreshPromise) is set exactly while one is.
C2_MarkerTracksRefresh ==
    /\ refreshCalls <= 1
    /\ isRefreshing <=> refreshCalls = 1
    /\ isRefreshing <=> refreshPromise # <<>>

\* a refresh has settled (a request it re-issued is still on the wire) and a
\* later 401 has started the next one
C2_Witness ==
    /\ isRefreshing /\ refreshCalls = 1
    /\ \E r \in ReqIds : req[r].st = "sent" /\ req[r].retry

\* C3: when the refresh call fails, every request that waited for it is rejected
\* with its own 401 error after its single transmission and is not on the wire
\* again, both stored tokens are absent, and the page is navigating to /login.
C3_FailedRefreshRejectsAll ==
    (task.src = "refresh" /\ task.status = 401) =>
        /\ \A r \in task.woke :
              /\ \E s \in task.settled :
                    s.req = r /\ s.error = Error(r, 401, 1) /\ s.sends = 1
              /\ req[r].st = "idle"
        /\ Absent(localStorage)
        /\ navigatingToLogin

C3_Witness ==
    /\ task.src = "refresh" /\ task.status = 401
    /\ Cardinality(task.woke) >= 2
    /\ Absent(localStorage)

\* C4: a request is transmitted at most twice, the second time only as a marked
\* retry; a marked retry never waits for a refresh, and a 401 on it is what its
\* caller gets.
C4_RetriedOnce ==
    /\ \A r \in ReqIds :
          /\ req[r].sends <= 2
          /\ req[r].sends = 2 => req[r].retry
          /\ req[r].st = "waiting" => ~req[r].retry /\ req[r].sends = 1
    /\ \A s \in task.settled : s.sends <= 2
    /\ (task.src \in ReqIds /\ task.status = 401 /\ req[task.src].st # "waiting") =>
          \E s \in task.settled :
              s.req = task.src /\ s.error = Error(task.src, 401, s.sends)

C4_Witness ==
    /\ task.src \in ReqIds /\ task.status = 401
    /\ \E s \in task.settled :
          s.req = task.src /\ s.error = Error(task.src, 401, 2) /\ s.sends = 2

\* C5: an error response to a request that is marked as a retry, or goes to the
\* login or registration endpoint, or arrives while no refresh token is stored,
\* is handed to the caller as it is: no refresh call is started, the request is
\* not transmitted again, and the caller finds the stored credentials as they
\* were; a caller that does not touch them itself leaves them so.
C5_Guarded(r) ==
    \/ req[r].retry
    \/ req[r].url \in {LoginUrl, RegisterUrl}
    \/ localStorage.refresh_token = NULL

C5_SurfacedUnchanged ==
    [][\A r \in ReqIds :
         (req[r].st = "sent" /\ C5_Guarded(r) /\ task'.src = r /\ task'.status # 200) =>
            /\ Settlement(r, req[r].url, Error(r, task'.status, req[r].sends),
                          req[r].sends, localStorage) \in task'.settled
            /\ req'[r].st # "waiting"
            /\ refreshCalls' = refreshCalls
            /\ isRefreshing' = isRefreshing
            /\ r \in PageIds => localStorage' = localStorage]_vars

\* a rejected login while a pair is stored: the client hands the 401 over with
\* the pair in place, it is login() that then removes it
C5_Witness ==
    /\ task.src = "login" /\ task.status = 401
    /\ \E t \in TokenPairs :
          Settlement("login", LoginUrl, Error("login", 401, 1), 1,
                     StoreTokens(localStorage, t)) \in task.settled
    /\ login.result = "rejected"
    /\ ~isRefreshing

\* C6: the stored credential pair is whole in every reachable state: both
\* tokens present or both absent.
C6_PairWhole == Present(localStorage) \/ Absent(localStorage)

\* a fulfilled refresh has rewritten the pair; a failed one has removed it
C6_Witness ==
    /\ task.src = "refresh" /\ task.status = 200
    /\ localStorage.access_token = task.data.tokens.access
    /\ localStorage.refresh_token = task.data.tokens.refresh

C8_Hydration ==
    /\ [](\A s \in task.settled : s.req = "init" =>
            /\ initPc = "done" /\ ~isLoading
            /\ IF s.error = NoError
               THEN /\ task.src = "init"
                    /\ isAuthenticated
                    /\ user = task.data.user /\ user \in Users
               ELSE /\ ~isAuthenticated
                    /\ user = NULL
                    /\ Absent(localStorage))
    /\ [][initPc = "start" =>
            IF localStorage.access_token = NULL
            THEN /\ initPc' = "done" /\ ~isLoading'
                 /\ req'["init"].st = "idle"
                 /\ ~isAuthenticated' /\ user' = NULL
            ELSE /\ initPc' = "fetching" /\ isLoading'
                 /\ req'["init"].st = "sent" /\ req'["init"].url = ProfileUrl
                 /\ req'["init"].auth = localStorage.access_token]_vars

\* a page load with no login in it ends authenticated from the stored tokens
C8_Witness ==
    /\ \E s \in task.settled : s.req = "init" /\ s.error = NoError
    /\ login.result = "none"
    /\ isAuthenticated /\ user \in Users
    /\ Present(localStorage)

\* C9: whenever login() returns without error, the pair the credential
\* endpoint returned is stored and the session is authenticated with the user
\* of the profile response.
C9_LoginResolvedAuthenticated ==
    (/\ \E s \in task.settled : s.req = "login" /\ s.url = ProfileUrl
     /\ login.pc = "idle" /\ login.result = "resolved") =>
        /\ localStorage.access_token = login.tokens.access
        /\ localStorage.refresh_token = login.tokens.refresh
        /\ isAuthenticated
        /\ task.status = 200 /\ user = task.data.user

\* C10: when the credential endpoint rejects a login, login() ends with that
\* error, no profile request is on the wire, both tokens are absent and the
\* session is anonymous.
C10_LoginRejected ==
    \A s \in task.settled :
        (s.req = "login" /\ s.url = LoginUrl /\ s.error # NoError) =>
            /\ login.pc = "idle" /\ login.result = "rejected"
            /\ login.error = s.error
            /\ s.error = Error("login", task.status, 1) /\ s.sends = 1
            /\ req["login"].st = "idle"
            /\ Absent(localStorage)
            /\ ~isAuthenticated /\ user = NULL

C10_Witness ==
    /\ \E s \in task.settled : s.req = "login" /\ s.url = LoginUrl /\ s.error # NoError
    /\ login.result = "rejected" /\ login.error = Error("login", 401, 1)
    /\ Absent(localStorage) /\ ~isAuthenticated

\* C11: an authenticated session becomes anonymous only when logout() completes
\* or a profile fetch fails; no other step of a running page (a rejected login
\* or registration, a page request) takes isAuthenticated from TRUE to FALSE.
C11_LeavesAuthenticated ==
    [][(isAuthenticated /\ ~isAuthenticated' /\ initPc' # "start") =>
          \/ /\ logout'.result = "resolved"
             /\ \/ \E s \in task'.settled : s.req = "logout"
                \/ task' = NoResponse
          \/ \E s \in task'.settled : s.url = ProfileUrl /\ s.error # NoError]_vars

\* C12: a stored connection status has authenticated = has_token and
\* is_connected and not is_expired, whether it was fetched or is the synthetic
\* disconnected record; isConnected is that field, and FALSE with no status.
C12_AuthenticatedDerived ==
    /\ oauthStatus # <<>> =>
          oauthStatus[1].authenticated =
              (/\ oauthStatus[1].has_token
               /\ oauthStatus[1].is_connected
               /\ oauthStatus[1].is_expired # "true")
    /\ isConnected = (oauthStatus # <<>> /\ oauthStatus[1].authenticated)

\* a fetched status of a live connection whose expiry is not known
C12_Witness ==
    /\ gmailEvent.op = "statusFulfilled"
    /\ isConnected
    /\ oauthStatus[1].is_expired = NULL

\* C13: a refreshStatus() that runs while the session is not authenticated
\* issues no status request and leaves status, error and loading flag alone.
C13_RefreshStatusNoOp ==
    [][(gmailEvent'.op = "refreshStatus" /\ ~isAuthenticated) =>
          /\ statusCalls' = statusCalls
          /\ UNCHANGED <<oauthStatus, gmailError, gmailLoading>>]_vars

\* C14: when the status fetch fails, refreshStatus() does not throw, the stored
\* status is the synthetic disconnected record, an error message is recorded
\* and the loading flag is false.
C14_FetchFailureStored ==
    gmailEvent.op = "statusRejected" =>
        /\ ~gmailEvent.threw
        /\ oauthStatus # <<>>
        /\ ~oauthStatus[1].has_token
        /\ ~oauthStatus[1].is_connected
        /\ ~oauthStatus[1].authenticated
        /\ gmailError # NULL
        /\ ~gmailLoading

C14_Witness ==
    /\ gmailEvent.op = "statusRejected"
    /\ oauthStatus = <<Disconnected>>
    /\ gmailError = "Failed to check Gmail connection"
    /\ isAuthenticated

C16_ExchangeIffPresent ==
    cbPc # "mounted" =>
        (cbCalls # <<>> <=>
            /\ cbParams.error = NULL
            /\ cbParams.code \notin {NULL, ""}
            /\ cbParams.state \notin {NULL, ""})

\* C16 (amended): the exchange call is made, once and with the code and state of
\* the URL, exactly when the error parameter is absent or empty and code and
\* state are both present and not empty; otherwise no call is made and the
\* display state is error.
C16_ExchangeIffNonEmpty ==
    cbPc # "mounted" =>
        /\ cbCalls # <<>> <=>
              /\ cbParams.error \in {NULL, ""}
              /\ cbParams.code \notin {NULL, ""}
              /\ cbParams.state \notin {NULL, ""}
        /\ cbCalls \in {<<>>, << <<cbParams.code, cbParams.state>> >>}
        /\ cbCalls = <<>> => cbStatus = "error" /\ cbPc = "settled"

\* error=access_denied beside a code and a state: error shown, nothing exchanged
C16_Witness ==
    /\ cbParams = [code |-> "c1", state |-> "s1", error |-> "access_denied"]
    /\ cbStatus = "error"
    /\ cbMessage = "OAuth error: access_denied"
    /\ cbCalls = <<>>

\* C17 (as stated): once the display state has left loading the run is always
\* followed by the navigation to the dashboard, so the browser never ends up
\* elsewhere.
C17_AlwaysDashboard ==
    cbStatus # "loading" => cbLocation # "/login"

\* C17 (amended): a run that settles ends in success or error and keeps that
\* display state; while the page is up the redirect timer is pending with the
\* delay of that state (2000 ms success, 3000 ms error); the browser reaches the
\* dashboard after exactly that delay, unless the HTTP client, after a failed
\* token refresh, has replaced the page with the login route first; one of the
\* two navigations always follows.
C17_SettlesAndRedirects ==
    /\ [](IF cbPc = "settled" THEN cbStatus \in {"success", "error"}
                               ELSE cbStatus = "loading")
    /\ [][cbStatus # "loading" => cbStatus' = cbStatus]_vars
    /\ []((cbStatus # "loading" /\ cbLocation = "/oauth-callback") =>
            /\ cbTimer # <<>>
            /\ cbTimer[1] + cbWaited =
                  IF cbStatus = "success" THEN SuccessDelay ELSE ErrorDelay)
    /\ [](cbLocation = "/dashboard" =>
            cbWaited = IF cbStatus = "success" THEN SuccessDelay ELSE ErrorDelay)
    /\ [](cbLocation = "/login" => cbStatus = "error" /\ Absent(localStorage))
    /\ (cbStatus # "loading") ~> (cbLocation \in {"/dashboard", "/login"})

\* an error run that reached the dashboard after the longer delay
C17_Witness ==
    /\ cbStatus = "error"
    /\ cbLocation = "/dashboard"
    /\ cbWaited = ErrorDelay
    /\ cbCalls # <<>>

C19_ValidationGatesSubmit ==
    /\ [][(/\ bulkEvent' = "handleExecute"
            /\ \/ selectedCategory = ""
               \/ operation = "delete" /\ selectedTimePeriod = ""
               \/ emailCount < 1
               \/ emailCount > 10000) =>
            /\ posts' = posts
            /\ submits' = submits
            /\ executing' = executing
            /\ currentTask' = currentTask]_vars
    /\ [](\A i \in 1..Len(posts) :
            /\ posts[i].q # ""
            /\ posts[i].max_emails >= 1 /\ posts[i].max_emails <= 10000
            /\ posts[i].endpoint = "/gmail/delete-by-query/" => selectedTimePeriod # "")

\* a submit attempt on a delete without an age bucket was turned down
C19_Witness ==
    /\ bulkEvent = "handleExecute"
    /\ operation = "delete" /\ selectedCategory # "" /\ selectedTimePeriod = ""
    /\ emailCount = 500
    /\ validationErrors = {"timePeriod"}
    /\ bulkError = <<"Please fix the validation errors before proceeding">>
    /\ posts = <<>> /\ ~executing

\* C20: for a recover operation with a category selected the derived filter is
\* exactly "in:trash", whatever the category and the age bucket, and that is
\* the filter of every recover job posted.
C20_RecoverFilter ==
    /\ (operation = "recover" /\ selectedCategory # "") => queryString = "in:trash"
    /\ \A i \in 1..Len(posts) :
          posts[i].endpoint = "/gmail/recover-by-query/" => posts[i].q = "in:trash"

\* a recover job posted while an age bucket was selected
C20_Witness ==
    /\ operation = "recover"
    /\ selectedCategory = "in:spam" /\ selectedTimePeriod = "30d"
    /\ posts # <<>>
    /\ posts[1] = [endpoint |-> "/gmail/recover-by-query/", q |-> "in:trash",
                    max_emails |-> emailCount]

\* C21: every job a delete submission posts goes to the delete-by-query
\* endpoint with q = category, " older_than:", age bucket and max_emails = the
\* item count; every job a recover submission posts goes to the
\* recover-by-query endpoint, with the same max_emails.
C21_JobPosted ==
    [][(bulkEvent' = "handleExecute" /\ posts' # posts) =>
         LET job == posts'[Len(posts')]
         IN /\ posts' = Append(posts, job)
            /\ job.max_emails = emailCount
            /\ operation = "delete" =>
                 /\ job.endpoint = "/gmail/delete-by-query/"
                 /\ job.q = selectedCategory \o " older_than:" \o selectedTimePeriod
            /\ operation = "recover" => job.endpoint = "/gmail/recover-by-query/"]_vars

\* scenario A: spam, 30d, 500
C21_Witness ==
    /\ operation = "delete"
    /\ bulkEvent = "handleExecute"
    /\ posts = <<[endpoint |-> "/gmail/delete-by-query/", q |-> "in:spam older_than:30d",
                  max_emails |-> 500]>>

\* C22: when a job submission succeeds, the returned task identifier is stored
\* as the tracked task with status PENDING and the confirmation dialog is
\* closed (so that the poll effect starts for that task).
C22_TaskTracked ==
    [][bulkEvent' = "submitFulfilled" =>
         /\ currentTask' # <<>>
         /\ currentTask'[1].status = "PENDING"
         /\ ~executeOpen']_vars

\* C28: once logout() has completed, the stored credentials stay absent until
\* a login succeeds: no other step (in particular a token refresh that was
\* started before the logout and settles after it) writes tokens into storage.
C28_LoggedOutStaysAbsent ==
    [][(logout.result = "resolved" /\ Absent(localStorage) /\ ~Absent(localStorage')) =>
         (task'.src = "login" /\ task'.status = 200)]_vars

\* C27: whenever disconnectGmail() has just succeeded while a status fetch is
\* still in flight, that fetch can complete next and store what it fetched: no
\* guard keeps the disconnected record, so isConnected can be true again
\* without a new connect.
C27_StaleOverwritePossible ==
    (gmailEvent.op = "revokeFulfilled" /\ statusCalls > 0) =>
        /\ ~isConnected
        /\ ENABLED (/\ \E data \in StatusBodies : StatusFulfilled(data)
                    /\ isConnected'
                    /\ revoke' = revoke)

\* the stale status of a live connection, stored after the successful
\* disconnect
C27_Witness ==
    /\ revoke = [pc |-> "idle", result |-> "resolved"]
    /\ gmailEvent.op = "statusFulfilled"
    /\ isConnected
    /\ oauthStatus[1].has_token /\ oauthStatus[1].is_connected

\* C29: while the session is not authenticated the connection store holds no
\* connected status (isConnected is false).
C29_AnonymousNotConnected == ~isAuthenticated => ~isConnected

\* C24: after a submission has failed with 401 the Retry action is not offered
\* and no retry submission is issued, until the user changes the state.
C24_NoRetryAfter401 ==
    /\ [](bulkError = <<GetErrorMessage(TRUE, 401)>> => ~canRetry)
    /\ [][bulkError = <<GetErrorMessage(TRUE, 401)>> => bulkEvent' # "retryOperation"]_vars

C23_OneCompletion ==
    /\ [](Len(posts) = 1 => completions <= 1)
    /\ [][(Len(posts) = 1 /\ mounted /\ bulkEvent' = "pollFulfilled" /\ polled' = "SUCCESS")
            => currentTask' = <<>>]_vars
    /\ [][(Len(posts) = 1 /\ completions >= 1) =>
            (currentTask' = <<>> /\ bulkEvent' # "pollTick")]_vars

\* C26: at most one polling timer is active, and one is active only while the
\* page is mounted and a tracked task exists with status PENDING or PROGRESS
\* (the timer is the one of that task); a poll call is issued only by the firing
\* of an active timer.
C26_OneTimer ==
    /\ [](Len(pollTimers) <= 1)
    /\ [](pollTimers # <<>> =>
            /\ mounted
            /\ currentTask # <<>>
            /\ currentTask[1].status \in {"PENDING", "PROGRESS"}
            /\ pollTimers[1] = currentTask[1].task_id)
    /\ []((~mounted \/ currentTask = <<>>) => pollTimers = <<>>)
    /\ [][polls' # polls /\ Len(polls') > Len(polls) =>
            (pollTimers # <<>> /\ bulkEvent' = "pollTick"
               /\ polls' = Append(polls, [task_id |-> pollTimers[1],
                                           from |-> taskStatus[pollTimers[1]]]))]_vars

\* a task in PROGRESS is being polled by the one timer, with a call in flight
C26_Witness ==
    /\ mounted
    /\ currentTask = <<Task(1, "PROGRESS")>>
    /\ pollTimers = <<1>>
    /\ polls # <<>>
    /\ bulkEvent = "pollTick"

\* C30: a tracked task that is being polled leads to the terminal outcome (the
\* task discarded, executing false, a success or an error message shown) unless
\* the page is left; a failed poll call leaves the tracked task, the timer and
\* the executing flag as they were.
C30_PollingTerminates ==
    /\ (mounted /\ currentTask # <<>>) ~>
          \/ ~mounted
          \/ /\ currentTask = <<>>
             /\ ~executing
             /\ (bulkSuccess # <<>> \/ bulkError # <<>>)
    /\ [][bulkEvent' = "pollRejected" =>
            /\ currentTask' = currentTask
            /\ pollTimers' = pollTimers
            /\ executing' = executing]_vars

\* a failed poll call has left a pending task tracked and its timer running
C30_Witness ==
    /\ bulkEvent = "pollRejected"
    /\ mounted
    /\ currentTask = <<Task(1, "PENDING")>>
    /\ pollTimers = <<1>>
    /\ executing

====
